---- MODULE Spec2Model ----
(***************************************************************************)
(* Model of gcode-feeder.ino: an Arduino sketch that discovers g-code      *)
(* programs on an SD card, shuffles their order, and streams them line by  *)
(* line to a motion controller, polling a debounced button while it waits. *)
(*                                                                         *)
(* Time is kept relative: sinceLastPoll is millis() - prevTime of          *)
(* checkButton, rawHeld is how long the raw pin has kept its level.        *)
(***************************************************************************)
EXTENDS Integers, Sequences, FiniteSets, TLC

\* ---------------------------------------------------------------- bounds
MaxPatterns == 2      \* pattern files on the card
MaxLines == 2         \* lines of the program stored in each file
MaxStreams == 3       \* streams started by loop() that the model follows
MaxCtl == 1           \* responses the controller may still owe
SpinLen == 125        \* iterations of one modelled run of the waitSerial loop
MaxShuffle == 4       \* catalog sizes drawn for randomizePatterns alone

\* ------------------------------------------------------ program constants
MAX_FILES == 10
DEBOUNCE_TIME_MS == 250

Min(a, b) == IF a < b THEN a ELSE b

\* one modelled period without a poll: half the range of a 16-bit sum of ms
IdleTime == 65536 \div 2

\* ------------------------------------------------------------- the card
NL == "\n"
HomeName == <<"h", "o", "m", "e", ".", "g">>
HomePrefix == <<"h", "o", "m", "e", ".">>
DirName == <<"d">>
NoName == <<>>
Digit == <<"0", "1", "2", "3", "4", "5", "6", "7", "8", "9">>
RECURSIVE Decimal(_)
Decimal(i) == IF i < 10 THEN <<Digit[i + 1]>> ELSE Decimal(i \div 10) \o <<Digit[(i % 10) + 1]>>
PatternName(i) == Decimal(i) \o <<".", "g">>

\* String::startsWith
StartsWith(s, p) == Len(s) >= Len(p) /\ SubSeq(s, 1, Len(p)) = p

\* the k-th line of a stored program
LineOf(k) == IF k % 2 = 1 THEN <<"a", NL>> ELSE <<"b", "c", NL>>
RECURSIVE ProgramText(_)
ProgramText(n) == IF n = 0 THEN <<>> ELSE ProgramText(n - 1) \o LineOf(n)
\* programs of up to MaxLines terminated lines, and one whose last line has no newline
Unterminated == ProgramText(MaxLines - 1) \o <<"d">>
Programs == {ProgramText(n) : n \in 0..MaxLines} \cup {Unterminated}

\* directory listing: an optional home file, a directory, n pattern files
Entry(name, isDir) == [name |-> name, isDir |-> isDir]
CardDir(h, n) ==
    (IF h THEN <<Entry(HomeName, FALSE)>> ELSE <<>>)
    \o <<Entry(DirName, TRUE)>>
    \o [i \in 1..n |-> Entry(PatternName(i), FALSE)]

\* the cards: every catalog with a one-line program in each file, and every
\* program on a card with one pattern file and no home file
Cards ==
    {[dir |-> CardDir(h, n), data |-> ProgramText(1)] : h \in BOOLEAN, n \in 0..MaxPatterns}
    \cup {[dir |-> CardDir(FALSE, 1), data |-> data] : data \in Programs}

VARIABLES
    card,            \* [dir, data]: the directory listing and the bytes of every file
    pc,              \* position of the single thread of control
    ret,             \* caller of sendGcode: "setup" (homeTable) or "loop"
    dirPos,          \* entries of the directory already returned by openNextFile
    fileCount, filenames, homeFilename, patternOrder, currentPattern,
    j,               \* loop variable of randomizePatterns
    fileOpen,        \* bool(currentFile)
    filePos,         \* bytes of currentFile already read
    openHandles,     \* program handles opened and not closed
    abortPattern,
    buttonState, debounceCounter, polledOnce, sinceLastPoll,
    pinLow,          \* raw level of CONTINUE_PIN
    rx,              \* responses waiting in GrblSerial's receive buffer
    ctl,             \* responses the controller has not produced yet
    \* history variables
    sent,            \* program lines written to GrblSerial in this stream
    acked,           \* highest line of this stream the controller has answered
    outcome,         \* how the last stream ended
    abortAt,         \* lines written when abortPattern was set in this stream, else -1
    picked,          \* catalog indices selected by openFileSD
    rawHeld,         \* ms the raw pin has kept its level (capped)
    pollGap,         \* ms since checkButton last ran (capped)
    polledFor,       \* ms the raw level differs from buttonState under polling
    setsThisPress,   \* times abortPattern was set since the pin last changed
    edgePending,     \* a press was committed since loop() last cleared abortPattern
    startPress,      \* the press that made loop() start this stream is still held
    abortSpent       \* abortPattern is as the break of the last stream left it

vars == <<card, pc, ret, dirPos, fileCount, filenames, homeFilename, patternOrder,
          currentPattern, j, fileOpen, filePos, openHandles, abortPattern,
          buttonState, debounceCounter, polledOnce, sinceLastPoll, pinLow, rx, ctl,
          sent, acked, outcome, abortAt, picked, rawHeld, pollGap,
          polledFor, setsThisPress, edgePending, startPress,
          abortSpent>>

catalogVars == <<fileCount, filenames, homeFilename, patternOrder, currentPattern, j, dirPos>>
fileVars == <<fileOpen, filePos, openHandles>>
buttonVars == <<abortPattern, buttonState, debounceCounter, polledOnce, setsThisPress,
                edgePending, startPress, abortSpent>>
timeVars == <<sinceLastPoll, rawHeld, pollGap, polledFor>>
linkVars == <<rx, ctl, acked>>
streamVars == <<sent, outcome, abortAt>>

Slots == 0..(MAX_FILES - 1)

\* globals as the sketch declares them (lines 41-54) and checkButton's statics
Globals ==
    /\ pc = "setup" /\ ret = "setup" /\ dirPos = 0
    /\ fileCount = 0
    /\ filenames = [i \in Slots |-> NoName]
    /\ homeFilename = NoName
    /\ patternOrder = [i \in Slots |-> 0]
    /\ currentPattern = 0
    /\ j = 0
    /\ fileOpen = FALSE /\ filePos = 0 /\ openHandles = 0
    /\ abortPattern = FALSE
    /\ buttonState = TRUE /\ debounceCounter = 0 /\ polledOnce = FALSE
    /\ sinceLastPoll = 0
    /\ rx = <<>> /\ ctl = <<>>
    /\ sent = <<>> /\ acked = 0 /\ outcome = "none" /\ abortAt = -1
    /\ picked = <<>>
    /\ rawHeld = 0 /\ pollGap = 0 /\ polledFor = 0 /\ setsThisPress = 0
    /\ edgePending = FALSE /\ startPress = FALSE /\ abortSpent = FALSE

Init ==
    /\ card \in Cards
    /\ pinLow = FALSE
    /\ Globals

\* ------------------------------------------------------- time and button
\* int is 16 bits wide on the AVR boards the sketch names; unsigned long is 32
ToInt16(x) == LET m == x % 65536 IN IF m >= 32768 THEN m - 65536 ELSE m
\* (unsigned long)x < limit for an int x: a negative x converts to 2^32 + x,
\* which is above DEBOUNCE_TIME_MS, the only limit the sketch compares with
BelowUnsigned(x, limit) == x >= 0 /\ x < limit

\* delay(d), or d ms spent without a call of checkButton
Elapse(d) ==
    /\ sinceLastPoll' = (sinceLastPoll + d) % 65536
    /\ rawHeld' = Min(DEBOUNCE_TIME_MS, rawHeld + d)
    /\ pollGap' = Min(3, pollGap + d)
    /\ UNCHANGED polledFor

\* changed: the counter is set to the last interval, not advanced by it
CheckButtonNoSum(b, deltaTime_ms, buttonPressed) ==
    LET changing == (buttonPressed # b.state) /\ BelowUnsigned(b.counter, DEBOUNCE_TIME_MS)
        counter1 == IF changing THEN ToInt16(deltaTime_ms) ELSE b.counter
        changed == changing /\ ~BelowUnsigned(counter1, DEBOUNCE_TIME_MS)
        state1 == IF changed THEN buttonPressed ELSE b.state
    IN [state |-> state1,
        counter |-> IF buttonPressed = state1 THEN 0 ELSE counter1,
        abort |-> b.abort \/ (changed /\ buttonPressed)]

\* changed: a commit to released sets abortPattern as well
CheckButtonAnyEdge(b, deltaTime_ms, buttonPressed) ==
    LET changing == (buttonPressed # b.state) /\ BelowUnsigned(b.counter, DEBOUNCE_TIME_MS)
        counter1 == IF changing THEN ToInt16(b.counter + deltaTime_ms) ELSE b.counter
        changed == changing /\ ~BelowUnsigned(counter1, DEBOUNCE_TIME_MS)
        state1 == IF changed THEN buttonPressed ELSE b.state
    IN [state |-> state1,
        counter |-> IF buttonPressed = state1 THEN 0 ELSE counter1,
        abort |-> b.abort \/ changed]

\* checkButton, lines 261-287, on b = [state, counter, abort]
CheckButton(b, deltaTime_ms, buttonPressed) ==
    LET changing == (buttonPressed # b.state) /\ BelowUnsigned(b.counter, DEBOUNCE_TIME_MS)
        counter1 == IF changing THEN ToInt16(b.counter + deltaTime_ms) ELSE b.counter
        changed == changing /\ ~BelowUnsigned(counter1, DEBOUNCE_TIME_MS)
        state1 == IF changed THEN buttonPressed ELSE b.state
    IN [state |-> state1,
        counter |-> IF buttonPressed = state1 THEN 0 ELSE counter1,
        abort |-> b.abort \/ (changed /\ buttonPressed)]

\* k rounds of delay(1); checkButton(), the pin keeping its level. The rounds are
\* grouped in halves, and the state after the first half is bound before the
\* second half runs on it, which keeps the evaluation shallow.
RECURSIVE Rounds(_, _, _)
Rounds(b, buttonPressed, k) ==
    IF k = 0 THEN b
    ELSE IF k = 1 THEN CheckButton(b, 1, buttonPressed)
    ELSE LET half == k \div 2 IN
         CHOOSE r \in {Rounds(mid, buttonPressed, k - half) :
                           mid \in {Rounds(b, buttonPressed, half)}} : TRUE

\* checkButton with deltaTime_ms = first, then k - 1 rounds of delay(1); checkButton()
Polls(b, first, buttonPressed, k) ==
    Rounds(CheckButton(b, first, buttonPressed), buttonPressed, k - 1)

\* d ms pass, checkButton runs, and k - 1 rounds of delay(1); checkButton() follow,
\* the pin keeping its level throughout
TimedPoll(d, k) ==
    LET first == IF polledOnce THEN (sinceLastPoll + d) % 65536 ELSE 0
        b == Polls([state |-> buttonState, counter |-> debounceCounter,
                    abort |-> abortPattern], first, pinLow, k)
        gap == pollGap + d
        held == Min(DEBOUNCE_TIME_MS, rawHeld + d + (k - 1))
    IN /\ buttonState' = b.state
       /\ debounceCounter' = b.counter
       /\ abortPattern' = b.abort
       /\ polledOnce' = TRUE
       /\ sinceLastPoll' = 0
       /\ pollGap' = 0
       /\ rawHeld' = held
       /\ polledFor' = IF pinLow = buttonState THEN 0
                       ELSE IF gap <= 2 THEN Min(held, polledFor + gap + (k - 1))
                       ELSE Min(held, k - 1)
       /\ setsThisPress' = IF ~buttonState /\ b.state THEN setsThisPress + 1
                           ELSE setsThisPress
       /\ abortAt' = IF ~abortPattern /\ b.abort THEN Len(sent) ELSE abortAt
       /\ edgePending' = (edgePending \/ (~buttonState /\ b.state))
       /\ abortSpent' = (abortSpent /\ ~(~buttonState /\ b.state))
       /\ UNCHANGED startPress

\* ------------------------------------------------------------ setup()
\* setup(), lines 60-72: currentPattern = 0, checkSD, delay(2000), SD.open("/")
Setup ==
    /\ pc = "setup"
    /\ currentPattern' = 0
    /\ fileCount' = 0
    /\ dirPos' = 0
    /\ pc' = "count"
    /\ Elapse(3000)
    /\ UNCHANGED <<card, ret, filenames, homeFilename, patternOrder, j, fileVars,
                   buttonVars, pinLow, linkVars, streamVars, picked>>

\* changed: the test for the home file is missing
CountEntryNoHome ==
    /\ pc = "count"
    /\ dirPos < Len(card.dir)
    /\ LET entry == card.dir[dirPos + 1] IN
         IF entry.isDir
         THEN UNCHANGED <<fileCount, filenames, homeFilename>>
         ELSE /\ filenames' = [filenames EXCEPT ![fileCount] = entry.name]
              /\ fileCount' = IF fileCount + 1 >= MAX_FILES THEN fileCount ELSE fileCount + 1
              /\ UNCHANGED homeFilename
    /\ dirPos' = dirPos + 1
    /\ UNCHANGED <<card, pc, ret, patternOrder, currentPattern, j, fileVars, buttonVars,
                   timeVars, pinLow, linkVars, streamVars, picked>>

\* one iteration of the loop of countFiles that finds an entry
CountEntry ==
    /\ pc = "count"
    /\ dirPos < Len(card.dir)
    /\ LET entry == card.dir[dirPos + 1] IN
         IF entry.isDir
         THEN UNCHANGED <<fileCount, filenames, homeFilename>>
         ELSE IF StartsWith(entry.name, HomePrefix)
         THEN /\ homeFilename' = entry.name
              /\ UNCHANGED <<fileCount, filenames>>
         ELSE /\ filenames' = [filenames EXCEPT ![fileCount] = entry.name]
              /\ fileCount' = IF fileCount + 1 >= MAX_FILES THEN fileCount ELSE fileCount + 1
              /\ UNCHANGED homeFilename
    /\ dirPos' = dirPos + 1
    /\ UNCHANGED <<card, pc, ret, patternOrder, currentPattern, j, fileVars, buttonVars,
                   timeVars, pinLow, linkVars, streamVars, picked>>

\* openNextFile returns no entry: countFiles returns
CountDone ==
    /\ pc = "count"
    /\ dirPos >= Len(card.dir)
    /\ pc' = "fill"
    /\ UNCHANGED <<card, ret, catalogVars, fileVars, buttonVars, timeVars, pinLow,
                   linkVars, streamVars, picked>>

\* randomizePatterns, first loop: patternOrder[i] = i
RandFill ==
    /\ pc = "fill"
    /\ patternOrder' = [i \in Slots |-> i]
    /\ j' = 0
    /\ pc' = "swap"
    /\ UNCHANGED <<card, ret, dirPos, fileCount, filenames, homeFilename, currentPattern,
                   fileVars, buttonVars, timeVars, pinLow, linkVars, streamVars, picked>>

\* changed: the swap without its temporary
SwappedNoTemp(order, a, pos) == [order EXCEPT ![a] = order[pos]]

\* swap of patternOrder[j] and patternOrder[pos]
Swapped(order, a, pos) == [order EXCEPT ![a] = order[pos], ![pos] = order[a]]

\* randomizePatterns, one iteration of the second loop: pos = random(fileCount)
RandSwap ==
    /\ pc = "swap"
    /\ j < fileCount
    /\ \E pos \in 0..(fileCount - 1) : patternOrder' = Swapped(patternOrder, j, pos)
    /\ j' = j + 1
    /\ UNCHANGED <<card, pc, ret, dirPos, fileCount, filenames, homeFilename,
                   currentPattern, fileVars, buttonVars, timeVars, pinLow, linkVars,
                   streamVars, picked>>

RandDone ==
    /\ pc = "swap"
    /\ j >= fileCount
    /\ pc' = "home"
    /\ UNCHANGED <<card, ret, catalogVars, fileVars, buttonVars, timeVars, pinLow,
                   linkVars, streamVars, picked>>

\* ---------------------------------------------------------- storage
OnCard(name) == \E i \in 1..Len(card.dir) : card.dir[i].name = name /\ ~card.dir[i].isDir
\* SD.open of a name that is on the card may still fail (card pulled, read error)
OpenResults(name) == IF OnCard(name) THEN {TRUE, FALSE} ELSE {FALSE}
\* currentFile.available()
Available == Len(card.data) - filePos

\* readLine, lines 347-358: bytes up to and including the next newline
NextNL(data, pos) == CHOOSE e \in (pos + 1)..Len(data) :
                        data[e] = NL /\ \A i \in (pos + 1)..(e - 1) : data[i] # NL
HasNL(data, pos) == \E e \in (pos + 1)..Len(data) : data[e] = NL
\* changed: the newline is left out of the line
ReadLineNoNL(data, pos) == SubSeq(data, pos + 1, NextNL(data, pos) - 1)
ReadLine(data, pos) == SubSeq(data, pos + 1, NextNL(data, pos))

\* homeTable, lines 154-158: no home file was found
HomeNone ==
    /\ pc = "home"
    /\ Len(homeFilename) = 0
    /\ pc' = "idle"
    /\ UNCHANGED <<card, ret, catalogVars, fileVars, buttonVars, timeVars, pinLow,
                   linkVars, streamVars, picked>>

\* homeTable, lines 160-166: open the home file and call sendGcode
HomeOpen ==
    /\ pc = "home"
    /\ Len(homeFilename) # 0
    /\ \E ok \in OpenResults(homeFilename) :
         /\ fileOpen' = ok
         /\ openHandles' = IF ok THEN openHandles + 1 ELSE openHandles
    /\ filePos' = 0
    /\ ret' = "setup"
    /\ pc' = "wake"
    /\ UNCHANGED <<card, catalogVars, buttonVars, timeVars, pinLow, linkVars,
                   streamVars, picked>>

\* ------------------------------------------------------------- loop()
\* loop(), line 81 false: nothing to do, time passes
LoopIdle ==
    /\ pc = "idle"
    /\ ~(pinLow \/ abortPattern)
    /\ Elapse(IdleTime)
    /\ UNCHANGED <<card, pc, ret, catalogVars, fileVars, buttonVars, pinLow, linkVars,
                   streamVars, picked>>

\* loop(), lines 81-83: the pin is low or a press is pending
LoopStart ==
    /\ pc = "idle"
    /\ pinLow \/ abortPattern
    /\ Len(picked) < MaxStreams
    /\ abortPattern' = FALSE
    /\ edgePending' = FALSE
    /\ abortSpent' = FALSE
    /\ startPress' = (pinLow /\ rawHeld = 0 /\ ~abortPattern)
    /\ pc' = "open"
    /\ UNCHANGED <<card, ret, catalogVars, fileVars, buttonState, debounceCounter,
                   polledOnce, setsThisPress, timeVars, pinLow, linkVars, streamVars,
                   picked>>

\* openFileSD, lines 192-206
OpenFileSD ==
    /\ pc = "open"
    /\ LET nextPatternNumber == patternOrder[currentPattern]
           fileName == filenames[nextPatternNumber]
       IN /\ \E ok \in OpenResults(fileName) :
               /\ fileOpen' = ok
               /\ openHandles' = IF ok THEN openHandles + 1 ELSE openHandles
          /\ picked' = Append(picked, nextPatternNumber)
    /\ filePos' = 0
    /\ Elapse(1000)
    /\ ret' = "loop"
    /\ pc' = "wake"
    /\ UNCHANGED <<card, catalogVars, buttonVars, pinLow, linkVars, streamVars>>

\* changed: the cursor wraps one step late
NextPatternLate ==
    /\ pc = "next"
    /\ currentPattern' = IF currentPattern + 1 > fileCount THEN 0 ELSE currentPattern + 1
    /\ pc' = "idle"
    /\ UNCHANGED <<card, ret, dirPos, fileCount, filenames, homeFilename, patternOrder, j,
                   fileVars, buttonVars, timeVars, pinLow, linkVars, streamVars, picked>>

\* nextPattern, lines 92-98
NextPattern ==
    /\ pc = "next"
    /\ currentPattern' = IF currentPattern + 1 >= fileCount THEN 0 ELSE currentPattern + 1
    /\ pc' = "idle"
    /\ UNCHANGED <<card, ret, dirPos, fileCount, filenames, homeFilename, patternOrder, j,
                   fileVars, buttonVars, timeVars, pinLow, linkVars, streamVars, picked>>

\* --------------------------------------------------------- sendGcode()
Stale(q) == [i \in 1..Len(q) |-> 0]
Max(a, b) == IF a > b THEN a ELSE b

\* sendGcode, line 296: the wake sequence goes out; the controller may answer it.
\* Responses still owed or buffered belong to no line of the stream that starts.
SgWake ==
    /\ pc = "wake"
    /\ \E w \in {0, 1} :
         /\ w = 1 => Len(ctl) + Len(rx) < MaxCtl
         /\ ctl' = Stale(ctl) \o [i \in 1..w |-> 0]
    /\ rx' = Stale(rx)
    /\ acked' = 0
    /\ sent' = <<>>
    /\ outcome' = "none"
    /\ abortAt' = -1
    /\ pc' = "drain"
    /\ UNCHANGED <<card, ret, catalogVars, fileVars, buttonVars, timeVars, pinLow,
                   picked>>

\* sendGcode, lines 297-300: delay(2), emptySerialBuf, currentFile is open
SgDrain ==
    /\ pc = "drain"
    /\ fileOpen
    /\ Elapse(2)
    /\ rx' = <<>>
    /\ pc' = "loop"
    /\ UNCHANGED <<card, ret, catalogVars, fileVars, buttonVars, pinLow, ctl, acked,
                   streamVars, picked>>

\* changed: the test of currentFile is missing
SgFileErrorIgnored ==
    /\ pc = "drain"
    /\ ~fileOpen
    /\ Elapse(2)
    /\ rx' = <<>>
    /\ pc' = "loop"
    /\ UNCHANGED <<card, ret, catalogVars, fileVars, buttonVars, pinLow, ctl, acked,
                   streamVars, picked>>

\* sendGcode, lines 297-300 and 317-319: currentFile is not open, fileError
SgFileError ==
    /\ pc = "drain"
    /\ ~fileOpen
    /\ Elapse(2)
    /\ rx' = <<>>
    /\ outcome' = "OpenFailed"
    /\ pc' = "close"
    /\ UNCHANGED <<card, ret, catalogVars, fileVars, buttonVars, pinLow, ctl, acked,
                   sent, abortAt, picked>>

\* sendGcode, line 302: currentFile.available() is 0
SgEof ==
    /\ pc = "loop"
    /\ Available = 0
    /\ outcome' = "Completed"
    /\ pc' = "close"
    /\ UNCHANGED <<card, ret, catalogVars, fileVars, buttonVars, timeVars, pinLow,
                   linkVars, sent, abortAt, picked>>

\* sendGcode, lines 302-309: checkButton, abortPattern is set, break
SgAbort ==
    /\ pc = "loop"
    /\ Available > 0
    /\ TimedPoll(0, 1)
    /\ abortPattern'
    /\ outcome' = "Aborted"
    /\ pc' = "close"
    /\ UNCHANGED <<card, ret, catalogVars, fileVars, pinLow, linkVars, sent, picked>>

\* changed: abortPattern is not tested before the line goes out
SgSendNoAbortTest ==
    /\ pc = "loop"
    /\ Available > 0
    /\ TimedPoll(0, 1)
    /\ HasNL(card.data, filePos)
    /\ LET line == ReadLine(card.data, filePos) IN
         /\ filePos' = NextNL(card.data, filePos)
         /\ sent' = Append(sent, line)
         /\ ctl' = Append(ctl, Len(sent) + 1)
    /\ pc' = "wait"
    /\ UNCHANGED <<card, ret, catalogVars, fileOpen, openHandles, pinLow, rx, acked,
                   outcome, picked>>

\* sendGcode, lines 302-313: checkButton, no abort, readLine, the line goes out
SgSend ==
    /\ pc = "loop"
    /\ Available > 0
    /\ TimedPoll(0, 1)
    /\ ~abortPattern'
    /\ HasNL(card.data, filePos)
    /\ LET line == ReadLine(card.data, filePos) IN
         /\ filePos' = NextNL(card.data, filePos)
         /\ sent' = Append(sent, line)
         /\ ctl' = Append(ctl, Len(sent) + 1)
    /\ pc' = "wait"
    /\ UNCHANGED <<card, ret, catalogVars, fileOpen, openHandles, pinLow, rx, acked,
                   outcome, picked>>

\* sendGcode, lines 302-311: no newline is left, so the loop of readLine never ends
SgReadHang ==
    /\ pc = "loop"
    /\ Available > 0
    /\ TimedPoll(0, 1)
    /\ ~abortPattern'
    /\ ~HasNL(card.data, filePos)
    /\ filePos' = Len(card.data)
    /\ pc' = "hang"
    /\ UNCHANGED <<card, ret, catalogVars, fileOpen, openHandles, pinLow, linkVars, sent,
                   outcome, picked>>

\* readLine, lines 352-355, past the end of the file: read() gives -1, never '\n'
ReadLineSpin ==
    /\ pc = "hang"
    /\ Elapse(IdleTime)
    /\ UNCHANGED <<card, pc, ret, catalogVars, fileVars, buttonVars, pinLow, linkVars,
                   streamVars, picked>>

\* waitSerial, line 217 true the first time: checkButton, then delay(1) is next
WsEnter ==
    /\ pc = "wait"
    /\ rx = <<>>
    /\ TimedPoll(0, 1)
    /\ pc' = "ws"
    /\ UNCHANGED <<card, ret, catalogVars, fileVars, pinLow, linkVars, sent, outcome,
                   picked>>

\* waitSerial falls through; getSerial, lines 229-231: one read, checkButton
WsSkip ==
    /\ pc = "wait"
    /\ rx # <<>>
    /\ rx' = Tail(rx)
    /\ TimedPoll(0, 1)
    /\ pc' = "gs"
    /\ UNCHANGED <<card, ret, catalogVars, fileVars, pinLow, ctl, acked, sent, outcome,
                   picked>>

\* waitSerial, lines 217-220: SpinLen rounds of delay(1), nothing available, checkButton
WsSpin ==
    /\ pc = "ws"
    /\ rx = <<>>
    /\ TimedPoll(1, SpinLen)
    /\ UNCHANGED <<card, pc, ret, catalogVars, fileVars, pinLow, linkVars, sent, outcome,
                   picked>>

\* waitSerial, delay(1), data is available; getSerial, lines 229-231
WsExit ==
    /\ pc = "ws"
    /\ rx # <<>>
    /\ rx' = Tail(rx)
    /\ TimedPoll(1, 1)
    /\ pc' = "gs"
    /\ UNCHANGED <<card, ret, catalogVars, fileVars, pinLow, ctl, acked, sent, outcome,
                   picked>>

\* getSerial, lines 229-232: delay(2), more is available, read, checkButton
GsMore ==
    /\ pc = "gs"
    /\ rx # <<>>
    /\ rx' = Tail(rx)
    /\ TimedPoll(2, 1)
    /\ UNCHANGED <<card, pc, ret, catalogVars, fileVars, pinLow, ctl, acked, sent,
                   outcome, picked>>

\* getSerial, lines 232-234: delay(2), nothing more is available, return
GsDone ==
    /\ pc = "gs"
    /\ rx = <<>>
    /\ Elapse(2)
    /\ pc' = "loop"
    /\ UNCHANGED <<card, ret, catalogVars, fileVars, buttonVars, pinLow, linkVars,
                   streamVars, picked>>

\* changed: the break leaves sendGcode without closing the file
SgCloseSkippedOnAbort ==
    /\ pc = "close"
    /\ fileOpen' = IF outcome = "Aborted" THEN fileOpen ELSE FALSE
    /\ openHandles' = IF fileOpen /\ outcome # "Aborted" THEN openHandles - 1 ELSE openHandles
    /\ Elapse(2000)
    /\ abortSpent' = (outcome = "Aborted")
    /\ pc' = IF ret = "setup" THEN "idle" ELSE "next"
    /\ UNCHANGED <<card, ret, catalogVars, filePos, abortPattern, buttonState,
                   debounceCounter, polledOnce, setsThisPress, edgePending, startPress,
                   pinLow, linkVars, streamVars, picked>>

\* changed: loop() goes round without calling nextPattern
SgCloseNoAdvance ==
    /\ pc = "close"
    /\ fileOpen' = FALSE
    /\ openHandles' = IF fileOpen THEN openHandles - 1 ELSE openHandles
    /\ Elapse(2000)
    /\ abortSpent' = (outcome = "Aborted")
    /\ pc' = "idle"
    /\ UNCHANGED <<card, ret, catalogVars, filePos, abortPattern, buttonState,
                   debounceCounter, polledOnce, setsThisPress, edgePending, startPress,
                   pinLow, linkVars, streamVars, picked>>

\* sendGcode, lines 321-323: currentFile.close(), delay(2000), return to the caller
SgClose ==
    /\ pc = "close"
    /\ fileOpen' = FALSE
    /\ openHandles' = IF fileOpen THEN openHandles - 1 ELSE openHandles
    /\ Elapse(2000)
    /\ abortSpent' = (outcome = "Aborted")
    /\ pc' = IF ret = "setup" THEN "idle" ELSE "next"
    /\ UNCHANGED <<card, ret, catalogVars, filePos, abortPattern, buttonState,
                   debounceCounter, polledOnce, setsThisPress, edgePending, startPress,
                   pinLow, linkVars, streamVars, picked>>

\* ------------------------------------------------------- environment
\* the controller produces the next response it owes
CtlRespond ==
    /\ ctl # <<>>
    /\ rx' = Append(rx, Head(ctl))
    /\ ctl' = Tail(ctl)
    /\ acked' = Max(acked, Head(ctl))
    /\ UNCHANGED <<card, pc, ret, catalogVars, fileVars, buttonVars, timeVars, pinLow,
                   streamVars, picked>>

\* the raw level of CONTINUE_PIN changes, having held for a millisecond at least
PinChange ==
    /\ rawHeld > 0
    /\ pinLow' = ~pinLow
    /\ rawHeld' = 0
    /\ polledFor' = 0
    /\ setsThisPress' = 0
    /\ startPress' = FALSE
    /\ UNCHANGED <<card, pc, ret, catalogVars, fileVars, abortPattern, buttonState,
                   debounceCounter, polledOnce, edgePending, abortSpent, sinceLastPoll,
                   pollGap, linkVars, streamVars, picked>>

Next ==
    \/ Setup \/ CountEntry \/ CountDone \/ RandFill \/ RandSwap \/ RandDone
    \/ HomeNone \/ HomeOpen
    \/ LoopIdle \/ LoopStart \/ OpenFileSD \/ NextPattern
    \/ SgWake \/ SgDrain \/ SgFileError \/ SgEof \/ SgAbort \/ SgSend \/ SgReadHang
    \/ ReadLineSpin \/ WsEnter \/ WsSkip \/ WsSpin \/ WsExit \/ GsMore \/ GsDone \/ SgClose
    \/ CtlRespond \/ PinChange

Spec == Init /\ [][Next]_vars

\* setup() up to the end of randomizePatterns, on cards of up to MaxShuffle patterns
ShuffleCards == {[dir |-> CardDir(FALSE, n), data |-> ProgramText(1)] : n \in 0..MaxShuffle}
InitShuffle == card \in ShuffleCards /\ pinLow = FALSE /\ Globals
NextShuffle == Setup \/ CountEntry \/ CountDone \/ RandFill \/ RandSwap \/ RandDone
SpecShuffle == InitShuffle /\ [][NextShuffle]_vars

\* setup() up to the end of countFiles, on cards of up to MAX_FILES + 1 patterns
MaxCatalog == MAX_FILES + 1
CatalogCards == {[dir |-> CardDir(h, n), data |-> ProgramText(1)] :
                     h \in BOOLEAN, n \in 0..MaxCatalog}
InitCatalog == card \in CatalogCards /\ pinLow = FALSE /\ Globals
NextCatalog == Setup \/ CountEntry \/ CountDone
SpecCatalog == InitCatalog /\ [][NextCatalog]_vars

\* ------------------------------------------- serialGrblDEMOKTv3.ino
\* The older sketch keeps its cursor patIdx in currentPattern and its array pats in
\* patternOrder; picked holds the pattern numbers openFileSD chose. Its sendGcode
\* (lines 249-272) touches none of pats, patIdx, fileCount and nextPat.
MaxPicks == 5
PATS_SIZE == 100

\* countFiles, lines 120-139: the files of the directory, less one for the home file
V3FileCount(dir) == Cardinality({i \in 1..Len(dir) : ~dir[i].isDir}) - 1

\* setup(), lines 65-76: patIdx = 0, checkSD, delay(2000), countFiles, homeTable,
\* sendGcode of the home file
V3Setup ==
    /\ pc = "setup"
    /\ currentPattern' = 0
    /\ fileCount' = V3FileCount(card.dir)
    /\ Elapse(6000)
    /\ pc' = "v3fill"
    /\ UNCHANGED <<card, ret, dirPos, filenames, homeFilename, patternOrder, j, fileVars,
                   buttonVars, pinLow, linkVars, streamVars, picked>>

\* randomPats, lines 155-157: pats[i] = i + 1
V3RandFill ==
    /\ pc = "v3fill"
    /\ patternOrder' = [i \in 0..(PATS_SIZE - 1) |-> i + 1]
    /\ j' = 0
    /\ pc' = "v3swap"
    /\ UNCHANGED <<card, ret, dirPos, fileCount, filenames, homeFilename, currentPattern,
                   fileVars, buttonVars, timeVars, pinLow, linkVars, streamVars, picked>>

\* randomPats, lines 161-166: pos = random(fileCount), swap of pats[j] and pats[pos]
V3RandSwap ==
    /\ pc = "v3swap"
    /\ j < fileCount
    /\ \E pos \in 0..(fileCount - 1) : patternOrder' = Swapped(patternOrder, j, pos)
    /\ j' = j + 1
    /\ UNCHANGED <<card, pc, ret, dirPos, fileCount, filenames, homeFilename,
                   currentPattern, fileVars, buttonVars, timeVars, pinLow, linkVars,
                   streamVars, picked>>

V3RandDone ==
    /\ pc = "v3swap"
    /\ j >= fileCount
    /\ pc' = "v3loop"
    /\ UNCHANGED <<card, ret, catalogVars, fileVars, buttonVars, timeVars, pinLow,
                   linkVars, streamVars, picked>>

\* loop(), lines 81-87, contPat reads the pin high: nextPat = false
V3LoopIdle ==
    /\ pc = "v3loop"
    /\ ~pinLow
    /\ Elapse(IdleTime)
    /\ UNCHANGED <<card, pc, ret, catalogVars, fileVars, buttonVars, pinLow, linkVars,
                   streamVars, picked>>

\* loop(), lines 81-87, contPat reads the pin low: nextPat = true
V3LoopStart ==
    /\ pc = "v3loop"
    /\ pinLow
    /\ Len(picked) < MaxPicks
    /\ pc' = "v3open"
    /\ UNCHANGED <<card, ret, catalogVars, fileVars, buttonVars, timeVars, pinLow,
                   linkVars, streamVars, picked>>

\* openFileSD, lines 170-186
V3OpenFileSD ==
    /\ pc = "v3open"
    /\ LET patIdx == IF currentPattern > fileCount THEN 0 ELSE currentPattern
           patNum == patternOrder[patIdx]
       IN /\ picked' = Append(picked, patNum)
          /\ currentPattern' = patIdx + 1
    /\ Elapse(1000)
    /\ pc' = "v3send"
    /\ UNCHANGED <<card, ret, dirPos, fileCount, filenames, homeFilename, patternOrder, j,
                   fileVars, buttonVars, pinLow, linkVars, streamVars>>

\* sendGcode, lines 249-272, and the end of the while of loop(): nextPat is false
V3SendGcode ==
    /\ pc = "v3send"
    /\ Elapse(2000)
    /\ pc' = "v3loop"
    /\ UNCHANGED <<card, ret, catalogVars, fileVars, buttonVars, pinLow, linkVars,
                   streamVars, picked>>

\* cards as the older sketch expects them: a home file and patterns 1.g, 2.g, ...
V3Cards == {[dir |-> CardDir(TRUE, n), data |-> ProgramText(1)] : n \in 1..MaxShuffle}
InitV3 == card \in V3Cards /\ pinLow = FALSE /\ Globals
NextV3 ==
    \/ V3Setup \/ V3RandFill \/ V3RandSwap \/ V3RandDone
    \/ V3LoopIdle \/ V3LoopStart \/ V3OpenFileSD \/ V3SendGcode \/ PinChange
SpecV3 == InitV3 /\ [][NextV3]_vars

\* ------------------------------------------------------------ properties
RECURSIVE Flatten(_)
Flatten(lines) == IF lines = <<>> THEN <<>> ELSE Head(lines) \o Flatten(Tail(lines))
Newlines(data) == Cardinality({i \in 1..Len(data) : data[i] = NL})
Terminated(data) == data = <<>> \/ data[Len(data)] = NL
\* lines of a program, a last line without newline included
NumLines(data) == Newlines(data) + (IF Terminated(data) THEN 0 ELSE 1)
InStream == pc \in {"drain", "loop", "wait", "ws", "gs", "hang", "close"}

\* C1: line N+1 of a stream is not written before the controller has produced its
\* acknowledgment of line N; responses that predate line N do not release line N+1.
AckBeforeNextLine == InStream => Len(sent) <= acked + 1

\* C2: a stream of a newline-terminated program during which no abort is requested
\* writes exactly the program's lines, in order and byte for byte, and ends Completed.
CompleteStream ==
    (pc = "close" /\ fileOpen /\ ~abortPattern /\ Terminated(card.data))
        => /\ Flatten(sent) = card.data
           /\ Len(sent) = Newlines(card.data)
           /\ \A i \in 1..Len(sent) : Newlines(sent[i]) = 1 /\ sent[i][Len(sent[i])] = NL
           /\ outcome = "Completed"
CompleteStreamSeen ==
    pc = "close" /\ outcome = "Completed" /\ ~abortPattern /\ Len(sent) = MaxLines

\* C3: if abortPattern becomes set after line k was written and before line k+1 is
\* read, 1 <= k < N, the stream writes exactly k lines and ends Aborted.
AbortAfterK ==
    (pc = "close" /\ abortAt >= 1 /\ abortAt < NumLines(card.data))
        => Len(sent) = abortAt /\ outcome = "Aborted"
AbortAfterKSeen ==
    pc = "close" /\ abortAt = 1 /\ NumLines(card.data) = 2 /\ outcome = "Aborted"

\* C4: at most one program handle is open at any time, and none is open while the
\* control loop is idle, whichever way the stream before ended.
HandleReleased ==
    /\ openHandles <= 1
    /\ pc \in {"idle", "next"} => openHandles = 0 /\ ~fileOpen
HandleReleasedSeen == pc = "idle" /\ outcome = "Aborted" /\ openHandles = 0

\* C5: a stream whose program could not be opened writes no program line, never
\* waits for the controller, and ends OpenFailed.
OpenFailedNoWrite ==
    (InStream /\ ~fileOpen)
        => /\ pc \in {"drain", "close"}
           /\ sent = <<>>
           /\ pc = "close" => outcome = "OpenFailed"
OpenFailedSeen == pc = "close" /\ outcome = "OpenFailed" /\ picked # <<>> /\ fileCount >= 1

\* C6: after randomizePatterns the first fileCount entries of patternOrder are a
\* bijection onto [0, fileCount).
ShufflePermutes ==
    pc = "home" =>
        /\ {patternOrder[i] : i \in 0..(fileCount - 1)} = 0..(fileCount - 1)
        /\ \A a, b \in 0..(fileCount - 1) : patternOrder[a] = patternOrder[b] => a = b
ShufflePermutesSeen ==
    pc = "home" /\ fileCount = MaxShuffle /\ patternOrder[0] = fileCount - 1
        /\ patternOrder[fileCount - 1] # 0

\* C7: with N >= 1 patterns the cursor stays in [0, N), wraps to 0 at N, and the
\* permutation is kept, so stream k and stream k+N select the same catalog index.
CursorCycles ==
    fileCount >= 1 =>
        /\ currentPattern \in 0..(fileCount - 1)
        /\ \A k \in 1..Len(picked) :
              /\ picked[k] = patternOrder[(k - 1) % fileCount]
              /\ k + fileCount <= Len(picked) => picked[k] = picked[k + fileCount]
CursorCyclesSeen ==
    fileCount = MaxPatterns /\ Len(picked) = MaxStreams /\ picked[1] # 0 /\ pc = "idle"

\* C8: with no pattern discovered a start request indexes nothing and opens nothing.
NoPatternNoOpen == fileCount = 0 => picked = <<>>

\* C9: buttonState changes, and abortPattern is set, only when the raw level has
\* kept its new value for at least DEBOUNCE_TIME_MS.
DebounceNeedsHold ==
    [][(buttonState' # buttonState \/ (abortPattern' /\ ~abortPattern))
          => rawHeld' >= DEBOUNCE_TIME_MS]_vars

\* C10: a raw level that differs from buttonState for DEBOUNCE_TIME_MS under polling
\* is committed; a commit to pressed sets abortPattern, once for one press.
DebounceCommits ==
    /\ [](polledFor >= DEBOUNCE_TIME_MS => pinLow = buttonState)
    /\ [][(~buttonState /\ buttonState') => abortPattern']_vars
    /\ [](setsThisPress <= 1)
DebounceCommitsSeen ==
    polledFor >= DEBOUNCE_TIME_MS /\ pinLow /\ buttonState /\ abortPattern
        /\ setsThisPress = 1

\* C11: a stream that ended Aborted is not followed by a new stream on account of
\* the abort that ended it: loop() starts the next stream only if the pin is low or
\* a press was committed after the break.
NoStartOnSpentAbort ==
    [][(pc = "idle" /\ pc' = "open") => (pinLow \/ ~abortSpent)]_vars

\* C12: a press made while loop() is idle starts one stream, and the press that
\* started it does not also set abortPattern, which would stop that stream and
\* start a second one.
PressStartsOnly == [][startPress => ~(abortPattern' /\ ~abortPattern)]_vars

IsPattern(entry) == ~entry.isDir /\ ~StartsWith(entry.name, HomePrefix)
PatternsOn(dir) == SelectSeq(dir, IsPattern)

\* C14: countFiles on a card of m <= MAX_FILES pattern files ends with fileCount = m
\* and the m names in filenames[0..m-1]; fileCount never exceeds MAX_FILES and no
\* slot outside [0, MAX_FILES) is written.
CatalogKeepsAll ==
    /\ fileCount <= MAX_FILES
    /\ DOMAIN filenames = Slots
    /\ (pc = "fill" /\ Len(PatternsOn(card.dir)) <= MAX_FILES)
          => /\ fileCount = Len(PatternsOn(card.dir))
             /\ \A i \in 0..(fileCount - 1) : filenames[i] = PatternsOn(card.dir)[i + 1].name

\* a step of the sketch, as opposed to one of the controller or of the pin
SketchStep == ctl' = ctl /\ pinLow' = pinLow

\* C15: checkButton runs in every iteration of loop(), idle ones included, and in
\* every iteration of the wait for the controller's response.
PolledEveryIteration ==
    [][(SketchStep /\ ((pc = "idle" /\ pc' = "idle") \/ pc = "ws")) => pollGap' = 0]_vars

\* once abortPattern is set in a stream no line is written, and the stream does not
\* end from inside getSerial
AbortAtLoopTop ==
    /\ [][(InStream /\ abortPattern') => sent' = sent]_vars
    /\ [][(pc = "wait" \/ pc = "ws" \/ pc = "gs") => pc' # "close"]_vars

ReadLineReturns == pc # "hang"

\* C18: abortPattern goes from false to true only in a poll that commits a change
\* of buttonState from released to pressed, and whenever loop() clears a set flag a
\* press has been committed since it last cleared the flag.
TriggerOncePerEdge ==
    /\ [][(~abortPattern /\ abortPattern') => (~buttonState /\ buttonState')]_vars
    /\ [][(abortPattern /\ ~abortPattern') => (edgePending /\ pc = "idle")]_vars
TriggerOncePerEdgeSeen ==
    pc = "open" /\ ~pinLow /\ ~abortPattern /\ ~edgePending /\ Len(picked) = 2
        /\ outcome = "Aborted"

SetupPcs == {"setup", "count", "fill", "swap", "home"}
\* sendGcode is running on behalf of homeTable
InHome == ret = "setup" /\ (pc = "wake" \/ InStream)
HomeOnCard == \E i \in 1..Len(card.dir) :
                 ~card.dir[i].isDir /\ StartsWith(card.dir[i].name, HomePrefix)

\* C19: no name that starts with "home." is in the catalog or is selected by
\* openFileSD; a home file that was found is streamed by setup() once, before any
\* pattern is selected, and without one setup() goes on to loop() with no stream.
HomeApart ==
    /\ [](\A i \in 0..(fileCount - 1) : ~StartsWith(filenames[i], HomePrefix))
    /\ [](\A k \in 1..Len(picked) : ~StartsWith(filenames[picked[k]], HomePrefix))
    /\ [](pc \notin {"setup", "count"} => ((homeFilename # NoName) <=> HomeOnCard))
    /\ [](InHome => (picked = <<>> /\ homeFilename # NoName))
    /\ [][(InHome' /\ ~InHome) => pc = "home"]_vars
    /\ [][(pc = "home" /\ pc' # "home")
            => pc' = IF homeFilename = NoName THEN "idle" ELSE "wake"]_vars
    /\ [][(pc' \in SetupPcs) => (pc \in SetupPcs)]_vars
    /\ [][(pc' = "home" /\ pc # "home") => pc = "swap"]_vars
HomeApartSeen ==
    pc = "idle" /\ homeFilename = HomeName /\ outcome = "Completed" /\ picked = <<>>
        /\ fileCount = MaxPatterns /\ Len(sent) = 1

\* C20: in serialGrblDEMOKTv3 every selection reads pats at a position in
\* [0, fileCount), selects a pattern number in 1..fileCount, and the selections of a
\* full cycle of fileCount are all different.
V3CycleSound ==
    /\ pc = "v3send" => (currentPattern - 1) \in 0..(fileCount - 1)
    /\ \A k \in 1..Len(picked) : picked[k] \in 1..fileCount
    /\ \A k, l \in 1..Len(picked) :
          (k < l /\ (k - 1) \div fileCount = (l - 1) \div fileCount) => picked[k] # picked[l]

====
